---- MODULE Spec2Model ----
(***************************************************************************)
(* A model of package gosmtpmail (smtp_email.go): the process-wide         *)
(* emailConfig, EmailSender (the dispatcher) and createEmailMessage (the   *)
(* MIME message builder).                                                  *)
(*                                                                         *)
(* Go strings that the code takes apart (attachment paths, the path        *)
(* prefix) are sequences of tokens: "/" , "." and ".." are tokens of their *)
(* own, every other token is a run of ordinary characters.  Addresses and  *)
(* bodies are opaque strings, "" being the empty Go string.  A built       *)
(* message is the sequence of the pieces the code writes to buf, in the    *)
(* order it writes them.                                                   *)
(***************************************************************************)
EXTENDS Integers, Sequences, FiniteSets, TLC

\* ------------------------------------------------------------------ bounds

\* Length of the caller's backing array that the `to` slices are cut from.
ArrLen == 2

\* Number of goroutines that may be inside EmailSender at the same time.
NumCalls == 2

\* ------------------------------------------------------------------ inputs

Calls == 1..NumCalls

AddrNames == <<"a@x.com", "b@x.com", "c@x.com", "d@x.com">>

BccValues == {"", "bcc@x.com"}

PrefixValues == {<<>>, <<"storage">>}

Bodies == {"", "Hi there"}

HtmlBodies == {"", "<p>Hi</p>"}

Paths ==
    { <<>>,
      <<"storage", "/", "a", ".", "pdf">>,
      <<"storage", "/", "notes", ".", "xyz">>,
      <<"storage", "/", "README">>,
      <<"storage", "/", "..", "/", "etc", "/", "passwd">>,
      <<"/", "etc", "/", "passwd">>,
      <<"tmp", "/", "a", ".", "pdf">> }

\* The values crypto/rand may hand to multipart.NewWriter as a boundary.
Boundaries == {"B1", "B2"}

\* Where an internal multipart writer step reports an error, if anywhere.
FailPoints == {"none", "body", "attachment", "close"}

\* The working directory of the process, as absolute path components.
Cwd == <<"srv", "app">>

\* ----------------------------------------------------------------- strings

HasPrefix(s, p) ==
    Len(s) >= Len(p) /\ SubSeq(s, 1, Len(p)) = p

RECURSIVE JoinFrom(_, _, _)
JoinFrom(elems, sep, i) ==
    IF i > Len(elems) THEN <<>>
    ELSE IF i = Len(elems) THEN <<elems[i]>>
    ELSE <<elems[i], sep>> \o JoinFrom(elems, sep, i + 1)

\* strings.Join(elems, sep)
Join(elems, sep) == JoinFrom(elems, sep, 1)

RECURSIVE ExtFrom(_, _)
ExtFrom(path, i) ==
    IF i = 0 \/ path[i] = "/" THEN <<>>
    ELSE IF path[i] = "." THEN SubSeq(path, i, Len(path))
    ELSE IF path[i] = ".." THEN <<".">> \o SubSeq(path, i + 1, Len(path))
    ELSE ExtFrom(path, i - 1)

\* filepath.Ext(path): from the last dot of the last element on.
Ext(path) == ExtFrom(path, Len(path))

RECURSIVE BaseFrom(_, _)
BaseFrom(path, i) ==
    IF i = 0 \/ path[i] = "/" THEN SubSeq(path, i + 1, Len(path))
    ELSE BaseFrom(path, i - 1)

RECURSIVE StripSlashes(_)
StripSlashes(path) ==
    IF Len(path) > 0 /\ path[Len(path)] = "/"
    THEN StripSlashes(SubSeq(path, 1, Len(path) - 1))
    ELSE path

\* filepath.Base(path): the last element, trailing separators removed.
Base(path) ==
    IF path = <<>> THEN <<".">>
    ELSE IF StripSlashes(path) = <<>> THEN <<"/">>
    ELSE BaseFrom(StripSlashes(path), Len(StripSlashes(path)))

\* mime.TypeByExtension(ext): the built-in table; "" when ext is not in it.
TypeByExtension(ext) ==
    IF ext = <<".", "pdf">> THEN "application/pdf"
    ELSE IF ext = <<".", "png">> THEN "image/png"
    ELSE ""

\* ------------------------------------------------------------- file system

RECURSIVE Components(_, _, _)
Components(path, i, cur) ==
    IF i > Len(path) THEN (IF cur = <<>> THEN <<>> ELSE <<cur>>)
    ELSE IF path[i] = "/"
         THEN (IF cur = <<>> THEN <<>> ELSE <<cur>>) \o Components(path, i + 1, <<>>)
         ELSE Components(path, i + 1, Append(cur, path[i]))

RECURSIVE Walk(_, _, _)
Walk(dir, comps, i) ==
    IF i > Len(comps) THEN dir
    ELSE IF comps[i] = <<".">> THEN Walk(dir, comps, i + 1)
    ELSE IF comps[i] = <<"..">>
         THEN Walk(IF dir = <<>> THEN <<>> ELSE SubSeq(dir, 1, Len(dir) - 1), comps, i + 1)
         ELSE Walk(Append(dir, comps[i]), comps, i + 1)

\* The absolute location the operating system resolves a path name to.
Resolve(path) ==
    Walk(IF Len(path) > 0 /\ path[1] = "/" THEN <<>> ELSE Cwd,
         Components(path, 1, <<>>), 1)

\* The file named `path` lies below the directory named `dir`.
Under(path, dir) ==
    /\ Len(Resolve(path)) > Len(Resolve(dir))
    /\ SubSeq(Resolve(path), 1, Len(Resolve(dir))) = Resolve(dir)

\* ------------------------------------------------- pieces of a built message

Tok(k, b, name, v, lead, arg) ==
    [k |-> k, b |-> b, name |-> name, v |-> v, lead |-> lead, arg |-> arg]

\* "MIME-Version: ...\r\nTo: <to>\r\n...Content-Type: multipart/mixed; boundary=<b>\r\n\r\n"
TopHeaders(toLine, b) == Tok("top", b, "Content-Type", "multipart/mixed", FALSE, toLine)

\* "--<b>\r\n", with "\r\n" in front when lead
Delim(b, lead) == Tok("delim", b, "", "", lead, <<>>)

\* "\r\n--<b>--\r\n"
CloseDelim(b) == Tok("close", b, "", "", TRUE, <<>>)

\* "<name>: <v>\r\n"; b is the boundary parameter of a multipart type, arg the file name
HeaderLine(name, v, b, arg) == Tok("hdr", b, name, v, FALSE, arg)

\* "\r\n" ending a part's headers
Blank == Tok("blank", "", "", "", FALSE, <<>>)

\* the bytes of a part's content
Data(v) == Tok("data", "", "", v, FALSE, <<>>)

\* ------------------------------------------------------- mime/multipart

\* Writer.CreatePart writes a part's header lines sorted by key.
HeaderOrder == <<"Content-Disposition", "Content-Transfer-Encoding", "Content-Type">>

RECURSIVE SortedLines(_, _)
SortedLines(header, i) ==
    IF i > Len(HeaderOrder) THEN <<>>
    ELSE (IF HeaderOrder[i] \in DOMAIN header THEN <<header[HeaderOrder[i]]>> ELSE <<>>)
         \o SortedLines(header, i + 1)

\* textproto.MIMEHeader{} followed by Set("Content-Type", v)
ContentTypeHeader(v) ==
    [n \in {"Content-Type"} |-> HeaderLine("Content-Type", v, "", <<>>)]

\* w.CreatePart(header): the delimiter (led by "\r\n" unless this is the
\* writer's first part), the header lines, and the blank line.
CreatePart(b, lastpart, header) ==
    <<Delim(b, lastpart)>> \o SortedLines(header, 1) \o <<Blank>>

\* w.Close(): the closing delimiter.
WriterClose(b) == <<CloseDelim(b)>>

\* --------------------------------------------------- createEmailMessage

ErrNil == "nil"

\* PathAllowed with the prefix check left out.
PathAllowed_Unchecked(attachmentPath, cfg) == TRUE

\* Lines 80-81: the attachment path is absent or starts with "<prefix>/".
PathAllowed(attachmentPath, cfg) ==
    \/ attachmentPath = <<>>
    \/ HasPrefix(attachmentPath, cfg.AttachmentPathPrefix \o <<"/">>)

\* Lines 89-97: the header block; the To line is the join of `to`.
Headers(to, boundary) == <<TopHeaders(Join(to, ", "), boundary)>>

\* AlternativeSection without altWriter.Close() (line 130).
AlternativeSection_Unclosed(body, htmlBody, boundary, altBoundary) ==
    <<Delim(boundary, FALSE),
      HeaderLine("Content-Type", "multipart/alternative", altBoundary, <<>>),
      Blank>>
    \o CreatePart(altBoundary, FALSE, ContentTypeHeader("text/plain; charset=UTF-8"))
    \o <<Data(body)>>
    \o CreatePart(altBoundary, TRUE, ContentTypeHeader("text/html; charset=UTF-8"))
    \o <<Data(htmlBody)>>

\* Lines 102-133: the nested multipart/alternative section, written through a
\* second writer on the same buffer.
AlternativeSection(body, htmlBody, boundary, altBoundary) ==
    <<Delim(boundary, FALSE),
      HeaderLine("Content-Type", "multipart/alternative", altBoundary, <<>>),
      Blank>>
    \o CreatePart(altBoundary, FALSE, ContentTypeHeader("text/plain; charset=UTF-8"))
    \o <<Data(body)>>
    \o CreatePart(altBoundary, TRUE, ContentTypeHeader("text/html; charset=UTF-8"))
    \o <<Data(htmlBody)>>
    \o WriterClose(altBoundary)

\* SinglePart with the text/plain header whatever the body is.
SinglePart_AlwaysPlain(contentType, content, boundary) ==
    CreatePart(boundary, FALSE, ContentTypeHeader("text/plain; charset=UTF-8"))
    \o <<Data(content)>>

\* Lines 136-145 and 148-157: one part created on the outer writer.
SinglePart(contentType, content, boundary) ==
    CreatePart(boundary, FALSE, ContentTypeHeader(contentType)) \o <<Data(content)>>

\* BodyPart without the final else branch (lines 158-160): an empty plain body
\* is written as a text/plain part.
BodyPart_NoEmptyCheck(body, htmlBody, boundary, altBoundary, fail) ==
    IF fail = "body"
    THEN [err |-> "MimeBuildError", toks |-> <<>>, lastpart |-> FALSE]
    ELSE IF body # "" /\ htmlBody # ""
    THEN [err |-> ErrNil, lastpart |-> FALSE,
          toks |-> <<Delim(boundary, FALSE),
                     HeaderLine("Content-Type", "multipart/alternative", altBoundary, <<>>),
                     Blank>>
                   \o CreatePart(altBoundary, FALSE,
                                 ContentTypeHeader("text/plain; charset=UTF-8"))
                   \o <<Data(body)>>
                   \o CreatePart(altBoundary, TRUE,
                                 ContentTypeHeader("text/html; charset=UTF-8"))
                   \o <<Data(htmlBody)>>
                   \o WriterClose(altBoundary)]
    ELSE IF htmlBody # ""
    THEN [err |-> ErrNil, lastpart |-> TRUE,
          toks |-> CreatePart(boundary, FALSE,
                              ContentTypeHeader("text/html; charset=UTF-8"))
                   \o <<Data(htmlBody)>>]
    ELSE [err |-> ErrNil, lastpart |-> TRUE,
          toks |-> CreatePart(boundary, FALSE,
                              ContentTypeHeader("text/plain; charset=UTF-8"))
                   \o <<Data(body)>>]

\* Lines 100-160.  lastpart: whether the outer writer has created a part.
BodyPart(body, htmlBody, boundary, altBoundary, fail) ==
    IF body # "" /\ htmlBody # "" THEN
        IF fail = "body"
        THEN [err |-> "MimeBuildError", toks |-> <<>>, lastpart |-> FALSE]
        ELSE [err |-> ErrNil, lastpart |-> FALSE,
              toks |-> AlternativeSection(body, htmlBody, boundary, altBoundary)]
    ELSE IF body # "" THEN
        IF fail = "body"
        THEN [err |-> "MimeBuildError", toks |-> <<>>, lastpart |-> FALSE]
        ELSE [err |-> ErrNil, lastpart |-> TRUE,
              toks |-> SinglePart("text/plain; charset=UTF-8", body, boundary)]
    ELSE IF htmlBody # "" THEN
        IF fail = "body"
        THEN [err |-> "MimeBuildError", toks |-> <<>>, lastpart |-> FALSE]
        ELSE [err |-> ErrNil, lastpart |-> TRUE,
              toks |-> SinglePart("text/html; charset=UTF-8", htmlBody, boundary)]
    ELSE [err |-> "EmptyBody", toks |-> <<>>, lastpart |-> FALSE]

\* Lines 168-171: the attachment part's header.
AttachmentHeader(attachmentPath) ==
    [n \in {"Content-Type", "Content-Disposition", "Content-Transfer-Encoding"} |->
        IF n = "Content-Type"
        THEN HeaderLine(n, TypeByExtension(Ext(attachmentPath)), "", <<>>)
        ELSE IF n = "Content-Disposition"
        THEN HeaderLine(n, "attachment", "", Base(attachmentPath))
        ELSE HeaderLine(n, "base64", "", <<>>)]

\* Lines 163-181.  reads: the os.ReadFile calls made, each with its outcome.
AttachmentPart(attachmentPath, boundary, lastpart, readOk, fail) ==
    IF attachmentPath = <<>>
    THEN [err |-> ErrNil, toks |-> <<>>, reads |-> <<>>]
    ELSE IF ~readOk
    THEN [err |-> "AttachmentReadError", toks |-> <<>>,
          reads |-> <<[path |-> attachmentPath, ok |-> FALSE]>>]
    ELSE IF fail = "attachment"
    THEN [err |-> "MimeBuildError", toks |-> <<>>,
          reads |-> <<[path |-> attachmentPath, ok |-> TRUE]>>]
    ELSE [err |-> ErrNil,
          toks |-> CreatePart(boundary, lastpart, AttachmentHeader(attachmentPath))
                   \o <<Data("base64(file)")>>,
          reads |-> <<[path |-> attachmentPath, ok |-> TRUE]>>]

Failed(e, reads) == [err |-> e, msg |-> <<>>, reads |-> reads]

\* Lines 78-189.  env: the boundaries the two writers draw, whether the file
\* can be read, and where (if anywhere) a writer step fails.
createEmailMessage(body, htmlBody, attachmentPath, to, cfg, env) ==
    IF ~PathAllowed(attachmentPath, cfg)
    THEN Failed("InvalidAttachmentPath", <<>>)
    ELSE
      LET bp == BodyPart(body, htmlBody, env.boundary, env.altBoundary, env.fail)
      IN IF bp.err # ErrNil THEN Failed(bp.err, <<>>)
         ELSE
           LET ap == AttachmentPart(attachmentPath, env.boundary, bp.lastpart,
                                    env.readOk, env.fail)
           IN IF ap.err # ErrNil THEN Failed(ap.err, ap.reads)
              ELSE IF env.fail = "close" THEN Failed("MimeBuildError", ap.reads)
              ELSE [err |-> ErrNil,
                    msg |-> Headers(to, env.boundary) \o bp.toks \o ap.toks
                            \o WriterClose(env.boundary),
                    reads |-> ap.reads]

\* ------------------------------------------------------------------ state

VARIABLES
    emailConfig,  \* the package variable (line 29)
    arr,          \* the caller's backing array; every `to` is a slice arr[0:len:cap]
    pc,           \* where each goroutine is: idle, append, build, send, done
    args,         \* the arguments of the call a goroutine is in
    recipients,   \* EmailSender's local slice `recipients`
    built,        \* what createEmailMessage returned: err, msg, reads
    ret,          \* the call's return value, once it is done
    handed        \* what each smtp.SendMail invocation of the call was given

vars == <<emailConfig, arr, pc, args, recipients, built, ret, handed>>

\* The elements of a slice of arr, as they are now.
SliceValue(len) == SubSeq(arr, 1, len)

NoArgs == [body |-> "", htmlBody |-> "", attachmentPath |-> <<>>,
           len |-> 0, cap |-> 0, arrAtEntry |-> <<>>]

NoRecipients == [shared |-> TRUE, len |-> 0, priv |-> <<>>]

NoBuilt == [err |-> ErrNil, msg |-> <<>>, reads |-> <<>>]

\* The zero value of EmailConfig, before any SetConfig.
ZeroConfig == [AttachmentPathPrefix |-> <<>>, BccAddressToSendCopy |-> ""]

Init ==
    /\ emailConfig = ZeroConfig
    /\ arr = [i \in 1..ArrLen |-> AddrNames[i]]
    /\ pc = [i \in Calls |-> "idle"]
    /\ args = [i \in Calls |-> NoArgs]
    /\ recipients = [i \in Calls |-> NoRecipients]
    /\ built = [i \in Calls |-> NoBuilt]
    /\ ret = [i \in Calls |-> FALSE]
    /\ handed = [i \in Calls |-> <<>>]

\* Lines 31-33.  The caller serialises configuration before any send begins.
SetConfig(config) ==
    /\ \A i \in Calls : pc[i] = "idle"
    /\ emailConfig' = config
    /\ UNCHANGED <<arr, pc, args, recipients, built, ret, handed>>

\* Line 36: a goroutine enters EmailSender with to = arr[0:n:c].  arrAtEntry
\* remembers the backing array as the caller handed it over.
Call(i, body, htmlBody, attachmentPath, n, c) ==
    /\ pc[i] = "idle"
    /\ pc' = [pc EXCEPT ![i] = "append"]
    /\ args' = [args EXCEPT ![i] =
                  [body |-> body, htmlBody |-> htmlBody,
                   attachmentPath |-> attachmentPath,
                   len |-> n, cap |-> c, arrAtEntry |-> arr]]
    /\ UNCHANGED <<emailConfig, arr, recipients, built, ret, handed>>

\* append(s, x) stores x in the spare capacity of the backing array of s when
\* there is some, and in a fresh copy of its own otherwise.
AppendInPlace(len, cap) == len < cap

\* Lines 41-44.
AppendBcc(i) ==
    /\ pc[i] = "append"
    /\ pc' = [pc EXCEPT ![i] = "build"]
    /\ IF emailConfig.BccAddressToSendCopy # ""
       THEN IF AppendInPlace(args[i].len, args[i].cap)
            THEN /\ arr' = [arr EXCEPT ![args[i].len + 1] =
                                 emailConfig.BccAddressToSendCopy]
                 /\ recipients' = [recipients EXCEPT ![i] =
                       [shared |-> TRUE, len |-> args[i].len + 1, priv |-> <<>>]]
            ELSE /\ arr' = arr
                 /\ recipients' = [recipients EXCEPT ![i] =
                       [shared |-> FALSE, len |-> args[i].len + 1,
                        priv |-> Append(SliceValue(args[i].len),
                                        emailConfig.BccAddressToSendCopy)]]
       ELSE /\ arr' = arr
            /\ recipients' = [recipients EXCEPT ![i] =
                  [shared |-> TRUE, len |-> args[i].len, priv |-> <<>>]]
    /\ UNCHANGED <<emailConfig, args, built, ret, handed>>

\* AfterBuild going on to the transport whatever createEmailMessage returned.
AfterBuild_IgnoreError(e) == "send"

\* Lines 48-51: a build error ends the call, otherwise the transport is next.
AfterBuild(e) == IF e # ErrNil THEN "done" ELSE "send"

\* Lines 47-51.  Two boundaries drawn by crypto/rand (30 random bytes each)
\* are taken to differ.
Build(i) ==
    /\ pc[i] = "build"
    /\ \E b \in Boundaries, ab \in Boundaries, readOk \in BOOLEAN, fail \in FailPoints :
         /\ ab # b
         /\ LET r == createEmailMessage(args[i].body, args[i].htmlBody,
                        args[i].attachmentPath, SliceValue(args[i].len), emailConfig,
                        [boundary |-> b, altBoundary |-> ab,
                         readOk |-> readOk, fail |-> fail])
            IN /\ built' = [built EXCEPT ![i] = r]
               /\ pc' = [pc EXCEPT ![i] = AfterBuild(r.err)]
               /\ ret' = [ret EXCEPT ![i] = FALSE]
    /\ UNCHANGED <<emailConfig, arr, args, recipients, handed>>

\* The elements of `recipients` as smtp.SendMail reads them.
RecipientsValue(i) ==
    IF recipients[i].shared THEN SliceValue(recipients[i].len) ELSE recipients[i].priv

\* Lines 60-64: the return value after the transport answered.
AfterSend(transportOk) == transportOk

\* Lines 54-64.
Send(i) ==
    /\ pc[i] = "send"
    /\ \E transportOk \in BOOLEAN :
         /\ handed' = [handed EXCEPT ![i] =
               Append(@, [rcpt |-> RecipientsValue(i), msg |-> built[i].msg,
                          ok |-> transportOk])]
         /\ ret' = [ret EXCEPT ![i] = AfterSend(transportOk)]
    /\ pc' = [pc EXCEPT ![i] = "done"]
    /\ UNCHANGED <<emailConfig, arr, args, recipients, built>>

\* EmailSender has returned; the goroutine may make another call.
Return(i) ==
    /\ pc[i] = "done"
    /\ pc' = [pc EXCEPT ![i] = "idle"]
    /\ args' = [args EXCEPT ![i] = NoArgs]
    /\ recipients' = [recipients EXCEPT ![i] = NoRecipients]
    /\ built' = [built EXCEPT ![i] = NoBuilt]
    /\ ret' = [ret EXCEPT ![i] = FALSE]
    /\ handed' = [handed EXCEPT ![i] = <<>>]
    /\ UNCHANGED <<emailConfig, arr>>

Configs ==
    [AttachmentPathPrefix : PrefixValues, BccAddressToSendCopy : BccValues]

\* One step of goroutine i, its call's inputs drawn from the given sets.
Step(i, bodies, htmlBodies, paths) ==
    \/ \E body \in bodies, htmlBody \in htmlBodies, attachmentPath \in paths,
          n \in 0..ArrLen, c \in 0..ArrLen :
            n <= c /\ Call(i, body, htmlBody, attachmentPath, n, c)
    \/ AppendBcc(i)
    \/ Build(i)
    \/ Send(i)
    \/ Return(i)

\* One goroutine calling EmailSender again and again, over every input.
Next ==
    \/ \E config \in Configs : SetConfig(config)
    \/ Step(1, Bodies, HtmlBodies, Paths)

Spec == Init /\ [][Next]_vars

\* NumCalls goroutines calling EmailSender concurrently.  What the calls share
\* is emailConfig and the backing array of `to`, so the bodies and the
\* attachment range over fewer values here.
ConcBodies == {"Hi there"}

ConcHtmlBodies == {""}

ConcPaths == {<<>>}

NextConc ==
    \/ \E config \in Configs : SetConfig(config)
    \/ \E i \in Calls : Step(i, ConcBodies, ConcHtmlBodies, ConcPaths)

SpecConc == Init /\ [][NextConc]_vars

\* ------------------------------------------- reading a built message back

Min(S) == CHOOSE x \in S : \A y \in S : x <= y

\* The addresses and separators of the To line.
ToLine(msg) == msg[1].arg

OuterBoundary(msg) == msg[1].b

\* The piece ends with "\r\n".
EndsCRLF(t) == t.k \in {"top", "delim", "close", "hdr", "blank"}

\* Piece i begins a line: a delimiter is one only at the start of a line.
LineStart(msg, i) == msg[i].lead \/ i = 1 \/ EndsCRLF(msg[i - 1])

IsDelim(msg, i, b) == msg[i].k = "delim" /\ msg[i].b = b /\ LineStart(msg, i)

IsClose(msg, i, b) == msg[i].k = "close" /\ msg[i].b = b /\ LineStart(msg, i)

\* The first closing delimiter of b within lo..hi; hi + 1 when there is none.
FirstClose(msg, b, lo, hi) ==
    Min({i \in lo..hi : IsClose(msg, i, b)} \cup {hi + 1})

\* Where the parts delimited by b within lo..hi start.
PartStarts(msg, b, lo, hi) ==
    {i \in lo..hi : IsDelim(msg, i, b) /\ i < FirstClose(msg, b, lo, hi)}

\* The last piece of the part that starts at delimiter d.
PartEnd(msg, b, d, hi) ==
    Min({i \in (d + 1)..hi : IsDelim(msg, i, b) \/ IsClose(msg, i, b)} \cup {hi + 1}) - 1

\* The first piece after the header lines of the part that starts at d.
HeaderEnd(msg, d) ==
    Min({i \in (d + 1)..Len(msg) : msg[i].k # "hdr"} \cup {Len(msg) + 1})

\* The header lines called `name` of the part that starts at d.
PartHeader(msg, d, name) ==
    {msg[i] : i \in {j \in (d + 1)..(HeaderEnd(msg, d) - 1) : msg[j].name = name}}

\* The content of the part that starts at d and ends at e, headers removed.
PartContent(msg, d, e) ==
    SubSeq(msg, HeaderEnd(msg, d) + 1, e)

\* The part that starts at d has exactly this Content-Type and nothing else
\* in its header, and exactly this content.
IsTextPart(msg, d, e, contentType, content) ==
    /\ PartHeader(msg, d, "Content-Type") = {HeaderLine("Content-Type", contentType, "", <<>>)}
    /\ HeaderEnd(msg, d) = d + 2
    /\ msg[d + 2].k = "blank"
    /\ PartContent(msg, d, e) = <<Data(content)>>

IsAttachmentPart(msg, d) == PartHeader(msg, d, "Content-Disposition") # {}

HasAlternative(msg) ==
    \E i \in DOMAIN msg : msg[i].k = "hdr" /\ msg[i].v = "multipart/alternative"

\* ----------------------------------------------------------------- claims

\* createEmailMessage has returned in goroutine i's call.
Returned(i) == pc[i] \in {"send", "done"}

Succeeded(i) == Returned(i) /\ built[i].err = ErrNil

\* The elements of `to` as the caller passed them.
ToAtEntry(i) == SubSeq(args[i].arrAtEntry, 1, args[i].len)

Bcc == emailConfig.BccAddressToSendCopy

Envelope(to) == IF Bcc # "" THEN Append(to, Bcc) ELSE to

PrefixOk(i) ==
    \/ args[i].attachmentPath = <<>>
    \/ /\ Len(args[i].attachmentPath) > Len(emailConfig.AttachmentPathPrefix)
       /\ SubSeq(args[i].attachmentPath, 1, Len(emailConfig.AttachmentPathPrefix) + 1)
            = Append(emailConfig.AttachmentPathPrefix, "/")

\* C1: whatever the transport is handed is the caller's `to` followed by the
\* BCC address (just `to` when none is configured), and the To line of the
\* message is the join of the caller's `to` and holds no BCC address.
C1_EnvelopeAndToHeader ==
    \A i \in Calls : \A k \in DOMAIN handed[i] :
        /\ handed[i][k].rcpt = Envelope(ToAtEntry(i))
        /\ ToLine(handed[i][k].msg) = Join(ToAtEntry(i), ", ")
        /\ Bcc # "" =>
             \A j \in DOMAIN ToLine(handed[i][k].msg) : ToLine(handed[i][k].msg)[j] # Bcc

\* C2: the transport is invoked at most once per call, never after a build
\* error, and the call returns true exactly when the build succeeded and that
\* one invocation reported no error.
C2_SingleSendAndResult ==
    \A i \in Calls :
        /\ Len(handed[i]) <= 1
        /\ built[i].err # ErrNil => handed[i] = <<>>
        /\ pc[i] = "done" =>
             (ret[i] <=> (built[i].err = ErrNil /\ Len(handed[i]) = 1 /\ handed[i][1].ok))

C2_Witness ==
    \E i \in Calls : pc[i] = "done" /\ ret[i] /\ Len(handed[i]) = 1

\* C3 (as stated): with both bodies empty createEmailMessage fails with
\* EmptyBody whatever the other inputs are.
C3_EmptyBodyAlways ==
    \A i \in Calls :
        (Returned(i) /\ args[i].body = "" /\ args[i].htmlBody = "")
            => built[i].err = "EmptyBody"

\* C3 (amended): with both bodies empty createEmailMessage fails: with
\* InvalidAttachmentPath when the attachment path is non-empty and lacks the
\* prefix, and with EmptyBody otherwise.
C3_EmptyBodyAfterPathCheck ==
    \A i \in Calls :
        (Returned(i) /\ args[i].body = "" /\ args[i].htmlBody = "")
            => /\ pc[i] = "done" /\ ~ret[i] /\ built[i].msg = <<>>
               /\ built[i].err = IF PrefixOk(i) THEN "EmptyBody" ELSE "InvalidAttachmentPath"

C3_Witness ==
    \E i \in Calls :
        /\ Returned(i) /\ args[i].body = "" /\ args[i].htmlBody = ""
        /\ args[i].attachmentPath # <<>> /\ PrefixOk(i)
        /\ built[i].err = "EmptyBody"

\* C4: a non-empty attachment path without the prefix fails with
\* InvalidAttachmentPath, and no call that ends in InvalidAttachmentPath or
\* EmptyBody has called os.ReadFile.
C4_NoReadBeforeValidation ==
    \A i \in Calls :
        Returned(i) =>
            /\ ~PrefixOk(i) => (built[i].err = "InvalidAttachmentPath" /\ built[i].reads = <<>>)
            /\ built[i].err \in {"InvalidAttachmentPath", "EmptyBody"} => built[i].reads = <<>>

C4_Witness ==
    \E i \in Calls :
        /\ Returned(i) /\ ~PrefixOk(i) /\ args[i].body # ""
        /\ built[i].err = "InvalidAttachmentPath" /\ built[i].reads = <<>>

\* C5: every file createEmailMessage reads lies under the directory the
\* configured prefix names ("<prefix>/").
C5_ReadsStayUnderRoot ==
    \A i \in Calls : \A k \in DOMAIN built[i].reads :
        built[i].reads[k].ok =>
            Under(built[i].reads[k].path, Append(emailConfig.AttachmentPathPrefix, "/"))

\* The nested section of msg: it starts at outer delimiter d, ends at e, and
\* is delimited by ab.
NestedIsPlainThenHtml(msg, d, e, ab, body, htmlBody) ==
    LET lo == HeaderEnd(msg, d) + 1
        inner == PartStarts(msg, ab, lo, e)
        c == FirstClose(msg, ab, lo, e)
    IN /\ Cardinality(inner) = 2
       /\ c = e
       /\ LET p1 == Min(inner)
              p2 == Min(inner \ {p1})
          IN /\ p1 = lo
             /\ IsTextPart(msg, p1, PartEnd(msg, ab, p1, e),
                           "text/plain; charset=UTF-8", body)
             /\ IsTextPart(msg, p2, PartEnd(msg, ab, p2, e),
                           "text/html; charset=UTF-8", htmlBody)

BuiltBoth(msg, body, htmlBody) ==
    LET b == OuterBoundary(msg)
        outer == PartStarts(msg, b, 2, Len(msg))
    IN /\ outer # {}
       /\ Min(outer) = 2
       /\ FirstClose(msg, b, 2, Len(msg)) = Len(msg)
       /\ LET d == Min(outer)
              e == PartEnd(msg, b, d, Len(msg))
              ct == PartHeader(msg, d, "Content-Type")
          IN /\ Cardinality(ct) = 1
             /\ \A t \in ct :
                  /\ t.v = "multipart/alternative"
                  /\ t.b # "" /\ t.b # b
                  /\ NestedIsPlainThenHtml(msg, d, e, t.b, body, htmlBody)
             /\ \A o \in outer \ {d} : IsAttachmentPart(msg, o) /\ o > e

\* C6: with both bodies non-empty, the first part under the outer boundary is
\* one multipart/alternative section with a boundary of its own, holding the
\* text/plain part and then the text/html part; the section is closed before
\* any attachment part and before the outer closing delimiter, which is the
\* last piece of the message.
C6_AlternativeSection ==
    \A i \in Calls :
        (Succeeded(i) /\ args[i].body # "" /\ args[i].htmlBody # "")
            => BuiltBoth(built[i].msg, args[i].body, args[i].htmlBody)

C6_Witness ==
    \E i \in Calls :
        /\ Succeeded(i) /\ args[i].body # "" /\ args[i].htmlBody # ""
        /\ args[i].attachmentPath # <<>>
        /\ BuiltBoth(built[i].msg, args[i].body, args[i].htmlBody)

BuiltSingle(msg, contentType, content, attached) ==
    LET b == OuterBoundary(msg)
        outer == PartStarts(msg, b, 2, Len(msg))
        bodies == {d \in outer : ~IsAttachmentPart(msg, d)}
    IN /\ ~HasAlternative(msg)
       /\ Cardinality(bodies) = 1
       /\ Cardinality(outer) = IF attached THEN 2 ELSE 1
       /\ FirstClose(msg, b, 2, Len(msg)) = Len(msg)
       /\ \A d \in bodies :
            /\ d = 2
            /\ IsTextPart(msg, d, PartEnd(msg, b, d, Len(msg)), contentType, content)

\* C7: with exactly one body non-empty the message holds exactly one body
\* part, directly under the outer boundary, of type text/plain or text/html,
\* carrying that body unchanged, and no multipart/alternative section; every
\* successful build is of exactly one of the three kinds.
C7_SingleBodyPart ==
    \A i \in Calls :
        Succeeded(i) =>
            /\ args[i].body # "" \/ args[i].htmlBody # ""
            /\ HasAlternative(built[i].msg) <=> (args[i].body # "" /\ args[i].htmlBody # "")
            /\ (args[i].body # "" /\ args[i].htmlBody = "") =>
                 BuiltSingle(built[i].msg, "text/plain; charset=UTF-8", args[i].body,
                             args[i].attachmentPath # <<>>)
            /\ (args[i].body = "" /\ args[i].htmlBody # "") =>
                 BuiltSingle(built[i].msg, "text/html; charset=UTF-8", args[i].htmlBody,
                             args[i].attachmentPath # <<>>)

C7_Witness ==
    \E i \in Calls :
        /\ Succeeded(i) /\ args[i].body = "" /\ args[i].htmlBody # ""
        /\ args[i].attachmentPath # <<>>
        /\ BuiltSingle(built[i].msg, "text/html; charset=UTF-8", args[i].htmlBody, TRUE)

\* C8: every attachment part of a built message carries a non-empty
\* Content-Type.
C8_AttachmentContentType ==
    \A i \in Calls :
        Succeeded(i) =>
            \A d \in PartStarts(built[i].msg, OuterBoundary(built[i].msg), 2,
                                Len(built[i].msg)) :
                IsAttachmentPart(built[i].msg, d) =>
                    \A t \in PartHeader(built[i].msg, d, "Content-Type") : t.v # ""

\* What the call of goroutine i hands to the transport when it runs alone.
AloneToLine(i) == ToLine(Headers(ToAtEntry(i), "B1"))

AloneRecipients(i) == Envelope(ToAtEntry(i))

\* C9: whatever the interleaving, the To line and the recipient list a call
\* hands to the transport are those it produces when it runs alone.
C9_CallsIndependent ==
    \A i \in Calls : \A k \in DOMAIN handed[i] :
        /\ ToLine(handed[i][k].msg) = AloneToLine(i)
        /\ handed[i][k].rcpt = AloneRecipients(i)

\* C10: when a call has returned, every element of the backing array of `to`
\* has the value it had when the call began.
C10_CallerArrayUnchanged ==
    \A i \in Calls : pc[i] = "done" => arr = args[i].arrAtEntry

====
